---- MODULE Spec2Model ----
(***************************************************************************)
(* A model of ib_fundamental's XMLParser (src/ib_fundamental/xml_parser.py) *)
(* the extraction operations over the four report trees of an XMLReport,   *)
(* and the functools.lru_cache(maxsize=4) wrapped round                    *)
(* XMLParser.get_ownership_report, and of the lazy properties of           *)
(* FundamentalData (src/ib_fundamental/fundamental.py) built on them.      *)
(*                                                                         *)
(* Python values are records tagged with their type, XML attribute values  *)
(* are plain strings, an element is [tag, attrib, text, kids] and an       *)
(* operation's outcome is either a returned value or a raised exception.   *)
(***************************************************************************)
EXTENDS Integers, Sequences, FiniteSets, TLC

VARIABLES
    xml_report,   \* parser instance -> its XMLReport: the four report trees
    cache,        \* the lru_cache of get_ownership_report, least recent first
    clock,        \* number of calls made to the wrapped get_ownership_report
    lastUse,      \* history: parser -> clock of its last successful call
    ret,          \* outcome of the last operation called
    slots,        \* the FundamentalData instance's private attributes, name -> value
    accesses,     \* number of property accesses made on the instance
    fetched,      \* history: property -> number of its parser calls that returned
    accessed      \* outcome of the last property access

\* The attributes of the FundamentalData instance and its history
facade == <<slots, accesses, fetched, accessed>>

vars == <<xml_report, cache, clock, lastUse, ret, slots, accesses, fetched, accessed>>

(***************************************************************************)
(* Bounds of the model.                                                    *)
(***************************************************************************)
MaxKids == 2        \* children of a financial-summary container, Ratio nodes
MaxDividends == 1   \* children of the Dividends container
MaxOwnerKids == 3   \* children of an Owner row
MaxItems == 2       \* FYEstimate / FYActual items of a forward-estimate tree
MaxCalls == 6       \* calls made to the wrapped get_ownership_report
MaxAccesses == 3    \* property accesses made on the FundamentalData instance

(***************************************************************************)
(* Python values.                                                          *)
(***************************************************************************)
None == [type |-> "None"]
PyStr(s) == [type |-> "str", s |-> s]
PyFloat(tenths) == [type |-> "float", tenths |-> tenths]
PyInt(n) == [type |-> "int", n |-> n]
PyDate(y, m, d) == [type |-> "datetime", y |-> y, m |-> m, d |-> d]
PyList(items) == [type |-> "list", items |-> items]

\* Outcome of evaluating an expression or a call.
Ok(v) == [kind |-> "return", value |-> v]
Raise(exc, at) == [kind |-> "raise", exc |-> exc, at |-> at]
IsOk(o) == o.kind = "return"

(***************************************************************************)
(* Field coercion.  Tokens range over the finite vocabulary below; the     *)
(* tables give what the Python built-ins return on each of them.           *)
(***************************************************************************)
IsoDates ==
    [t \in {"2023-03-31", "2022-01-01", "2021-12-31"} |->
        CASE t = "2023-03-31" -> PyDate(2023, 3, 31)
          [] t = "2022-01-01" -> PyDate(2022, 1, 1)
          [] t = "2021-12-31" -> PyDate(2021, 12, 31)]

Floats ==
    [t \in {"12.5", "0.5", "3", "0", "1000"} |->
        CASE t = "12.5" -> PyFloat(125)
          [] t = "0.5" -> PyFloat(5)
          [] t = "3" -> PyFloat(30)
          [] t = "0" -> PyFloat(0)
          [] t = "1000" -> PyFloat(10000)]

Ints ==
    [t \in {"3", "0", "1000", "12", "2024", "2025"} |->
        CASE t = "3" -> PyInt(3)
          [] t = "0" -> PyInt(0)
          [] t = "1000" -> PyInt(1000)
          [] t = "12" -> PyInt(12)
          [] t = "2024" -> PyInt(2024)
          [] t = "2025" -> PyInt(2025)]

\* datetime.fromisoformat(token), token a str
fromisoformat(token) ==
    IF token \in DOMAIN IsoDates
    THEN Ok(IsoDates[token])
    ELSE Raise("ValueError", "fromisoformat")

\* float(text), text a str or None
float(text) ==
    IF text = None THEN Raise("TypeError", "float")
    ELSE IF text.s \in DOMAIN Floats THEN Ok(Floats[text.s])
    ELSE Raise("ValueError", "float")

\* int(text), text a str or None
int(text) ==
    IF text = None THEN Raise("TypeError", "int")
    ELSE IF text.s \in DOMAIN Ints THEN Ok(Ints[text.s])
    ELSE Raise("ValueError", "int")

\* bool(text), text a str or None: the truth value of `i.text`
Truthy(text) == text # None /\ text.s # ""

(***************************************************************************)
(* Element trees.                                                          *)
(***************************************************************************)
NoAttrib == [a \in {} |-> ""]
Elem(tag, attrib, text, kids) ==
    [tag |-> tag, attrib |-> attrib, text |-> text, kids |-> kids]

\* node.attrib[name]
Attr(node, name) ==
    IF name \in DOMAIN node.attrib
    THEN Ok(node.attrib[name])
    ELSE Raise("KeyError", name)

\* [k for k in kids if k.tag == tag], in document order
RECURSIVE WithTag(_, _)
WithTag(kids, tag) ==
    IF kids = <<>> THEN <<>>
    ELSE (IF Head(kids).tag = tag THEN <<Head(kids)>> ELSE <<>>)
         \o WithTag(Tail(kids), tag)

\* node.findall("./tag")
findall(node, tag) == WithTag(node.kids, tag)

\* node.find("./tag"): the first such child, or None
find(node, tag) ==
    IF findall(node, tag) = <<>> THEN None ELSE Head(findall(node, tag))

\* Sequences over S of length at most n
BoundedSeq(S, n) == UNION {[1..k -> S] : k \in 0..n}

(***************************************************************************)
(* Dimensioned metrics of the financial summary: get_div_per_share,        *)
(* get_revenue, get_eps.                                                   *)
(***************************************************************************)
SummaryReportType == {"A", "TTM", "R", "P", "None"}
SummaryPeriod == {"12M", "3M", "None"}

\* The `if` clause with its two tests joined by `or` instead of `and`.
FilterConditionEither(i, report_type, period) ==
    IF report_type = "None" \/ period = "None" THEN Ok(TRUE)
    ELSE IF ~IsOk(Attr(i, "reportType")) THEN Attr(i, "reportType")
    ELSE IF i.attrib["reportType"] = report_type THEN Ok(TRUE)
    ELSE IF ~IsOk(Attr(i, "period")) THEN Attr(i, "period")
    ELSE Ok(i.attrib["period"] = period)

\* The `if` clause of the comprehension, evaluated left to right.
FilterCondition(i, report_type, period) ==
    IF report_type # "None" /\ ~IsOk(Attr(i, "reportType"))
    THEN Attr(i, "reportType")
    ELSE IF report_type # "None" /\ i.attrib["reportType"] # report_type
    THEN Ok(FALSE)
    ELSE IF period # "None" /\ ~IsOk(Attr(i, "period"))
    THEN Attr(i, "period")
    ELSE Ok(period = "None" \/ i.attrib["period"] = period)

\* DividendPerShare(...) / Revenue(...) / EarningsPerShare(...): the keyword
\* arguments are evaluated in order; `field` is value, revenue or eps.
MetricRecord(field, i, curr) ==
    IF ~IsOk(Attr(i, "asofDate")) THEN Attr(i, "asofDate")
    ELSE IF ~IsOk(fromisoformat(i.attrib["asofDate"]))
    THEN fromisoformat(i.attrib["asofDate"])
    ELSE IF ~IsOk(Attr(i, "reportType")) THEN Attr(i, "reportType")
    ELSE IF ~IsOk(Attr(i, "period")) THEN Attr(i, "period")
    ELSE IF ~IsOk(float(i.text)) THEN float(i.text)
    ELSE Ok([f \in {"as_of_date", "report_type", "period", "currency", field} |->
               CASE f = "as_of_date" -> fromisoformat(i.attrib["asofDate"]).value
                 [] f = "report_type" -> PyStr(i.attrib["reportType"])
                 [] f = "period" -> PyStr(i.attrib["period"])
                 [] f = "currency" -> PyStr(curr)
                 [] OTHER -> float(i.text).value])

\* The list comprehension over the children of the container: the first
\* exception ends it and no list is produced.
RECURSIVE MetricList(_, _, _, _, _)
MetricList(field, kids, curr, report_type, period) ==
    IF kids = <<>> THEN Ok(<<>>)
    ELSE LET i == Head(kids)
             c == FilterCondition(i, report_type, period)
             r == MetricRecord(field, i, curr)
             rest == MetricList(field, Tail(kids), curr, report_type, period)
         IN  IF ~IsOk(c) THEN c
             ELSE IF ~c.value THEN rest
             ELSE IF ~IsOk(r) THEN r
             ELSE IF ~IsOk(rest) THEN rest
             ELSE Ok(<<r.value>> \o rest.value)

\* fs.attrib["currency"] followed by the comprehension, fs not None
MetricsOf(field, fs, report_type, period) ==
    IF ~IsOk(Attr(fs, "currency")) THEN Attr(fs, "currency")
    ELSE LET l == MetricList(field, fs.kids, fs.attrib["currency"],
                             report_type, period)
         IN  IF IsOk(l) THEN Ok(PyList(l.value)) ELSE l

div_per_share(fin_summary, report_type, period) ==
    LET fs == find(fin_summary, "DividendPerShares")
    IN  IF fs = None THEN Ok(None)
        ELSE MetricsOf("value", fs, report_type, period)

\* get_revenue returning None, as get_div_per_share does, when the section is absent
revenueOptional(fin_summary, report_type, period) ==
    LET fs == find(fin_summary, "TotalRevenues")
    IN  IF fs = None THEN Ok(None)
        ELSE MetricsOf("revenue", fs, report_type, period)

revenue(fin_summary, report_type, period) ==
    LET fs == find(fin_summary, "TotalRevenues")
    IN  IF fs = None THEN Raise("AttributeError", "NoneType.attrib")
        ELSE MetricsOf("revenue", fs, report_type, period)

eps(fin_summary, report_type, period) ==
    LET fs == find(fin_summary, "EPSs")
    IN  IF fs = None THEN Raise("AttributeError", "NoneType.attrib")
        ELSE MetricsOf("eps", fs, report_type, period)

(***************************************************************************)
(* get_dividend.                                                           *)
(***************************************************************************)
\* fromisoformat(i.attrib[name]) if i.attrib[name] else None
OptionalDate(i, name) ==
    IF ~IsOk(Attr(i, name)) THEN Attr(i, name)
    ELSE IF i.attrib[name] = "" THEN Ok(None)
    ELSE fromisoformat(i.attrib[name])

\* float(i.text) if i.text else None
OptionalValue(i) == IF Truthy(i.text) THEN float(i.text) ELSE Ok(None)

\* Dividend(...): the keyword arguments are evaluated in order.
DividendRecord(i, curr) ==
    IF ~IsOk(Attr(i, "type")) THEN Attr(i, "type")
    ELSE IF ~IsOk(OptionalDate(i, "exDate")) THEN OptionalDate(i, "exDate")
    ELSE IF ~IsOk(OptionalDate(i, "recordDate")) THEN OptionalDate(i, "recordDate")
    ELSE IF ~IsOk(OptionalDate(i, "payDate")) THEN OptionalDate(i, "payDate")
    ELSE IF ~IsOk(OptionalDate(i, "declarationDate"))
    THEN OptionalDate(i, "declarationDate")
    ELSE IF ~IsOk(OptionalValue(i)) THEN OptionalValue(i)
    ELSE Ok([type |-> PyStr(i.attrib["type"]),
             ex_date |-> OptionalDate(i, "exDate").value,
             record_date |-> OptionalDate(i, "recordDate").value,
             pay_date |-> OptionalDate(i, "payDate").value,
             declaration_date |-> OptionalDate(i, "declarationDate").value,
             currency |-> PyStr(curr),
             value |-> OptionalValue(i).value])

RECURSIVE DividendList(_, _)
DividendList(kids, curr) ==
    IF kids = <<>> THEN Ok(<<>>)
    ELSE LET r == DividendRecord(Head(kids), curr)
             rest == DividendList(Tail(kids), curr)
         IN  IF ~IsOk(r) THEN r
             ELSE IF ~IsOk(rest) THEN rest
             ELSE Ok(<<r.value>> \o rest.value)

dividend(fin_summary) ==
    LET fs == find(fin_summary, "Dividends")
    IN  IF fs = None THEN Ok(None)
        ELSE IF ~IsOk(Attr(fs, "currency")) THEN Attr(fs, "currency")
        ELSE LET l == DividendList(fs.kids, fs.attrib["currency"])
             IN  IF IsOk(l) THEN Ok(PyList(l.value)) ELSE l

(***************************************************************************)
(* get_ownership_report: the wrapped function.                             *)
(***************************************************************************)
\* OwnershipCompany(...), isin and fa the single ISIN and floatShares nodes
OwnershipCompany(isin, fa) ==
    IF ~IsOk(int(fa.text)) THEN int(fa.text)
    ELSE IF ~IsOk(Attr(fa, "asofDate")) THEN Attr(fa, "asofDate")
    ELSE IF fa.attrib["asofDate"] # "0" /\ ~IsOk(fromisoformat(fa.attrib["asofDate"]))
    THEN fromisoformat(fa.attrib["asofDate"])
    ELSE Ok([ISIN |-> isin.text,
             float_shares |-> int(fa.text).value,
             as_of_date |-> IF fa.attrib["asofDate"] # "0"
                            THEN fromisoformat(fa.attrib["asofDate"]).value
                            ELSE None])

\* d[key] = value
DictSet(d, key, value) ==
    [k \in DOMAIN d \cup {key} |-> IF k = key THEN value ELSE d[k]]

\* One turn of `for j in i.findall("./")`, d the dict built so far
OwnerChild(d, j) ==
    LET dated == "as_of_date" \notin DOMAIN d /\ DOMAIN j.attrib # {}
        d1 == IF dated
              THEN DictSet(d, "as_of_date", fromisoformat(j.attrib["asofDate"]).value)
              ELSE d
        v == IF j.tag = "quantity" THEN float(j.text) ELSE Ok(j.text)
    IN  IF dated /\ ~IsOk(Attr(j, "asofDate")) THEN Attr(j, "asofDate")
        ELSE IF dated /\ ~IsOk(fromisoformat(j.attrib["asofDate"]))
        THEN fromisoformat(j.attrib["asofDate"])
        ELSE IF ~IsOk(v) THEN v
        ELSE Ok(DictSet(d1, j.tag, v.value))

RECURSIVE OwnerChildren(_, _)
OwnerChildren(d, kids) ==
    IF kids = <<>> THEN Ok(d)
    ELSE LET o == OwnerChild(d, Head(kids))
         IN  IF ~IsOk(o) THEN o ELSE OwnerChildren(o.value, Tail(kids))

\* The body of `for i in fa`: OwnershipDetails(**d) of one Owner row
OwnershipDetails(i) ==
    IF ~IsOk(Attr(i, "ownerId")) THEN Attr(i, "ownerId")
    ELSE OwnerChildren([owner_id |-> PyStr(i.attrib["ownerId"])], i.kids)

\* The owner loop leaving out the rows that fail instead of failing itself
RECURSIVE OwnerListSkipping(_)
OwnerListSkipping(owners) ==
    IF owners = <<>> THEN Ok(<<>>)
    ELSE LET r == OwnershipDetails(Head(owners))
             rest == OwnerListSkipping(Tail(owners))
         IN  IF ~IsOk(r) THEN rest
             ELSE Ok(<<r.value>> \o rest.value)

RECURSIVE OwnerList(_)
OwnerList(owners) ==
    IF owners = <<>> THEN Ok(<<>>)
    ELSE LET r == OwnershipDetails(Head(owners))
             rest == OwnerList(Tail(owners))
         IN  IF ~IsOk(r) THEN r
             ELSE IF ~IsOk(rest) THEN rest
             ELSE Ok(<<r.value>> \o rest.value)

\* The fields of the OwnershipReport the body constructs from tree fs
ownership_report(fs) ==
    IF Len(findall(fs, "ISIN")) # 1 THEN Raise("ValueError", "unpack ISIN")
    ELSE IF Len(findall(fs, "floatShares")) # 1
    THEN Raise("ValueError", "unpack floatShares")
    ELSE LET company == OwnershipCompany(Head(findall(fs, "ISIN")),
                                         Head(findall(fs, "floatShares")))
             _l == OwnerList(findall(fs, "Owner"))
         IN  IF ~IsOk(company) THEN company
             ELSE IF ~IsOk(_l) THEN _l
             ELSE Ok([company |-> company.value,
                      ownership_details |-> PyList(_l.value)])

(***************************************************************************)
(* get_ratios.                                                             *)
(***************************************************************************)
\* node.iter(tag): node and its descendants with that tag, in document order
RECURSIVE Iter(_, _), IterAll(_, _)
Iter(node, tag) ==
    (IF node.tag = tag THEN <<node>> ELSE <<>>) \o IterAll(node.kids, tag)
IterAll(kids, tag) ==
    IF kids = <<>> THEN <<>>
    ELSE Iter(Head(kids), tag) \o IterAll(Tail(kids), tag)

\* The children with that tag of each node of a sequence, in document order
RECURSIVE ChildrenOf(_, _)
ChildrenOf(nodes, tag) ==
    IF nodes = <<>> THEN <<>>
    ELSE findall(Head(nodes), tag) \o ChildrenOf(Tail(nodes), tag)

\* str.lower() on the field names of the vocabulary
Lowered ==
    [t \in {"LATESTADATE", "NPRICE"} |->
        CASE t = "LATESTADATE" -> "latestadate"
          [] t = "NPRICE" -> "nprice"]
lower(name) == Lowered[name]

\* fromisoformat(r.text), r.text a str or None
fromisoformatText(text) ==
    IF text = None THEN Raise("TypeError", "fromisoformat")
    ELSE fromisoformat(text.s)

\* One item of the dict comprehension: the key, then the value
RatioItem(r) ==
    IF ~IsOk(Attr(r, "FieldName")) THEN Attr(r, "FieldName")
    ELSE IF ~IsOk(Attr(r, "Type")) THEN Attr(r, "Type")
    ELSE LET v == IF r.attrib["Type"] = "D"
                  THEN fromisoformatText(r.text) ELSE float(r.text)
         IN  IF ~IsOk(v) THEN v
             ELSE Ok([key |-> lower(r.attrib["FieldName"]), value |-> v.value])

\* The dict comprehension over the Ratio nodes, d the dict built so far
RECURSIVE RatioDict(_, _)
RatioDict(d, nodes) ==
    IF nodes = <<>> THEN Ok(d)
    ELSE LET o == RatioItem(Head(nodes))
         IN  IF ~IsOk(o) THEN o
             ELSE RatioDict(DictSet(d, o.value.key, o.value.value), Tail(nodes))

ratios(snapshot) ==
    LET fs == ChildrenOf(ChildrenOf(IterAll(snapshot.kids, "Ratios"), "Group"), "Ratio")
        d == RatioDict(NoAttrib, fs)
    IN  IF IsOk(d) THEN Ok([type |-> "RatioSnapshot", fields |-> d.value]) ELSE d

(***************************************************************************)
(* get_analyst_forecast.                                                   *)
(***************************************************************************)
\* camel_to_snake on the field names of the vocabulary
SnakeCased ==
    [t \in {"ConsRecom", "TargetPrice"} |->
        CASE t = "ConsRecom" -> "cons_recom"
          [] t = "TargetPrice" -> "target_price"]
camel_to_snake(name) == SnakeCased[name]

\* One item of the dict comprehension: the key, then the value
ForecastItem(g) ==
    IF ~IsOk(Attr(g, "FieldName")) THEN Attr(g, "FieldName")
    ELSE IF findall(g, "Value") = <<>> THEN Raise("IndexError", g.tag)
    ELSE LET v == float(Head(findall(g, "Value")).text)
         IN  IF ~IsOk(v) THEN v
             ELSE Ok([key |-> camel_to_snake(g.attrib["FieldName"]), value |-> v.value])

\* The dict comprehension over the Ratio nodes, d the dict built so far
RECURSIVE ForecastDict(_, _)
ForecastDict(d, nodes) ==
    IF nodes = <<>> THEN Ok(d)
    ELSE LET o == ForecastItem(Head(nodes))
         IN  IF ~IsOk(o) THEN o
             ELSE ForecastDict(DictSet(d, o.value.key, o.value.value), Tail(nodes))

analyst_forecast(snapshot) ==
    LET fs == ChildrenOf(IterAll(snapshot.kids, "ForecastData"), "Ratio")
        d == ForecastDict(NoAttrib, fs)
    IN  IF IsOk(d) THEN Ok([type |-> "AnalystForecast", fields |-> d.value]) ELSE d

(***************************************************************************)
(* get_fy_estimates and get_fy_actuals.                                    *)
(***************************************************************************)
\* The first ConsEstimate of the period only
FirstLeafOf(p) ==
    IF Iter(p, "ConsEstimate") = <<>> THEN <<>> ELSE <<Head(Iter(p, "ConsEstimate"))>>

\* p.iter("ConsEstimate")
LeavesOf(p) == Iter(p, "ConsEstimate")

\* pd.to_datetime(token), token a str
to_datetime(token) ==
    IF token \in DOMAIN IsoDates
    THEN Ok(IsoDates[token])
    ELSE Raise("ValueError", "to_datetime")

\* node[0]
FirstChild(node) ==
    IF node.kids = <<>> THEN Raise("IndexError", node.tag) ELSE Ok(Head(node.kids))

\* The keyword arguments item ... end_cal_year that both ForwardYear calls share
ForwardYearCommon(type, a, p) ==
    IF ~IsOk(Attr(a, "type")) THEN Attr(a, "type")
    ELSE IF ~IsOk(Attr(a, "unit")) THEN Attr(a, "unit")
    ELSE IF ~IsOk(Attr(p, "periodType")) THEN Attr(p, "periodType")
    ELSE IF ~IsOk(Attr(p, "fYear")) THEN Attr(p, "fYear")
    ELSE IF ~IsOk(int(PyStr(p.attrib["fYear"]))) THEN int(PyStr(p.attrib["fYear"]))
    ELSE IF ~IsOk(Attr(p, "endMonth")) THEN Attr(p, "endMonth")
    ELSE IF ~IsOk(int(PyStr(p.attrib["endMonth"]))) THEN int(PyStr(p.attrib["endMonth"]))
    ELSE IF ~IsOk(Attr(p, "endCalYear")) THEN Attr(p, "endCalYear")
    ELSE IF ~IsOk(int(PyStr(p.attrib["endCalYear"])))
    THEN int(PyStr(p.attrib["endCalYear"]))
    ELSE Ok([type |-> PyStr(type),
             item |-> PyStr(a.attrib["type"]),
             unit |-> PyStr(a.attrib["unit"]),
             period_type |-> PyStr(p.attrib["periodType"]),
             fyear |-> int(PyStr(p.attrib["fYear"])).value,
             end_month |-> int(PyStr(p.attrib["endMonth"])).value,
             end_cal_year |-> int(PyStr(p.attrib["endCalYear"])).value])

\* ForwardYear(type="Estimate", ..., value=float(e[0].text), est_type=e.attrib["type"])
EstimateRecord(a, p, e) ==
    LET c == ForwardYearCommon("Estimate", a, p)
    IN  IF ~IsOk(c) THEN c
        ELSE IF ~IsOk(FirstChild(e)) THEN FirstChild(e)
        ELSE IF ~IsOk(float(FirstChild(e).value.text))
        THEN float(FirstChild(e).value.text)
        ELSE IF ~IsOk(Attr(e, "type")) THEN Attr(e, "type")
        ELSE Ok(DictSet(DictSet(c.value, "value", float(FirstChild(e).value.text).value),
                        "est_type", PyStr(e.attrib["type"])))

\* ForwardYear(type="Actual", ..., value=float(p[0].text), updated=pd.to_datetime(...))
ActualRecord(a, p) ==
    LET c == ForwardYearCommon("Actual", a, p)
    IN  IF ~IsOk(c) THEN c
        ELSE IF ~IsOk(FirstChild(p)) THEN FirstChild(p)
        ELSE IF ~IsOk(float(FirstChild(p).value.text))
        THEN float(FirstChild(p).value.text)
        ELSE IF ~IsOk(Attr(FirstChild(p).value, "updated"))
        THEN Attr(FirstChild(p).value, "updated")
        ELSE IF ~IsOk(to_datetime(FirstChild(p).value.attrib["updated"]))
        THEN to_datetime(FirstChild(p).value.attrib["updated"])
        ELSE Ok(DictSet(DictSet(c.value, "value", float(FirstChild(p).value.text).value),
                        "updated",
                        to_datetime(FirstChild(p).value.attrib["updated"]).value))

\* `for e in p.iter("ConsEstimate")`, es what is left of it
RECURSIVE EstimatesOfPeriod(_, _, _)
EstimatesOfPeriod(a, p, es) ==
    IF es = <<>> THEN Ok(<<>>)
    ELSE LET r == EstimateRecord(a, p, Head(es))
             rest == EstimatesOfPeriod(a, p, Tail(es))
         IN  IF ~IsOk(r) THEN r
             ELSE IF ~IsOk(rest) THEN rest
             ELSE Ok(<<r.value>> \o rest.value)

\* `for p in a.iter("FYPeriod")`, ps what is left of it
RECURSIVE EstimatesOfItem(_, _)
EstimatesOfItem(a, ps) ==
    IF ps = <<>> THEN Ok(<<>>)
    ELSE LET r == EstimatesOfPeriod(a, Head(ps), LeavesOf(Head(ps)))
             rest == EstimatesOfItem(a, Tail(ps))
         IN  IF ~IsOk(r) THEN r
             ELSE IF ~IsOk(rest) THEN rest
             ELSE Ok(r.value \o rest.value)

\* `for a in fs.iter("FYEstimate")`, as what is left of it
RECURSIVE EstimatesOf(_)
EstimatesOf(as) ==
    IF as = <<>> THEN Ok(<<>>)
    ELSE LET r == EstimatesOfItem(Head(as), Iter(Head(as), "FYPeriod"))
             rest == EstimatesOf(Tail(as))
         IN  IF ~IsOk(r) THEN r
             ELSE IF ~IsOk(rest) THEN rest
             ELSE Ok(r.value \o rest.value)

fy_estimates(fs) ==
    LET l == EstimatesOf(Iter(fs, "FYEstimate"))
    IN  IF IsOk(l) THEN Ok(PyList(l.value)) ELSE l

\* `for p in a.iter("FYPeriod")`, ps what is left of it
RECURSIVE ActualsOfItem(_, _)
ActualsOfItem(a, ps) ==
    IF ps = <<>> THEN Ok(<<>>)
    ELSE LET r == ActualRecord(a, Head(ps))
             rest == ActualsOfItem(a, Tail(ps))
         IN  IF ~IsOk(r) THEN r
             ELSE IF ~IsOk(rest) THEN rest
             ELSE Ok(<<r.value>> \o rest.value)

\* `for a in fs.iter("FYActual")`, as what is left of it
RECURSIVE ActualsOf(_)
ActualsOf(as) ==
    IF as = <<>> THEN Ok(<<>>)
    ELSE LET r == ActualsOfItem(Head(as), Iter(Head(as), "FYPeriod"))
             rest == ActualsOf(Tail(as))
         IN  IF ~IsOk(r) THEN r
             ELSE IF ~IsOk(rest) THEN rest
             ELSE Ok(r.value \o rest.value)

fy_actuals(fs) ==
    LET l == ActualsOf(Iter(fs, "FYActual"))
    IN  IF IsOk(l) THEN Ok(PyList(l.value)) ELSE l

(***************************************************************************)
(* functools.lru_cache(maxsize=4) round get_ownership_report.  The cache   *)
(* belongs to the function object, which is an attribute of the class: one *)
(* cache serves every XMLParser instance, keyed by the instance.           *)
(***************************************************************************)
maxsize == 4
Parsers == 1..(maxsize + 1)

\* A lookup that finds no key
LookupNothing(c, key) == 0

\* Position of the entry of `key` in cache c, 0 when there is none
Lookup(c, key) ==
    IF \E i \in 1..Len(c) : c[i].key = key
    THEN CHOOSE i \in 1..Len(c) : c[i].key = key
    ELSE 0

\* A hit that leaves the order of the entries alone (first in, first out)
CacheHitInPlace(c, i) == c

\* A hit on entry i: the entry becomes the most recently used
CacheHit(c, i) ==
    SubSeq(c, 1, i - 1) \o SubSeq(c, i + 1, Len(c)) \o <<c[i]>>

\* A miss whose call returned: the least recently used entry makes room
CacheInsert(c, key, result) ==
    (IF Len(c) >= maxsize THEN Tail(c) ELSE c)
        \o <<[key |-> key, result |-> result]>>

\* OwnershipReport(company=company, ownership_details=_l): a new object,
\* told from every other one by the number of the call that made it
NewReport(fields, id) ==
    [type |-> "OwnershipReport", id |-> id,
     company |-> fields.company, ownership_details |-> fields.ownership_details]

Called(op, self, args, out, ran) ==
    [op |-> op, self |-> self, args |-> args, out |-> out, ran |-> ran]

get_ownership_report(self) ==
    /\ clock < MaxCalls
    /\ clock' = clock + 1
    /\ LET i == Lookup(cache, self)
           o == ownership_report(xml_report[self].ownership)
           new == NewReport(o.value, clock + 1)
       IN  IF i # 0
           THEN /\ cache' = CacheHit(cache, i)
                /\ lastUse' = [lastUse EXCEPT ![self] = clock + 1]
                /\ ret' = Called("get_ownership_report", self, <<>>,
                                 Ok(cache[i].result), FALSE)
           ELSE IF IsOk(o)
           THEN /\ cache' = CacheInsert(cache, self, new)
                /\ lastUse' = [lastUse EXCEPT ![self] = clock + 1]
                /\ ret' = Called("get_ownership_report", self, <<>>, Ok(new), TRUE)
           ELSE /\ ret' = Called("get_ownership_report", self, <<>>, o, TRUE)
                /\ UNCHANGED <<cache, lastUse>>
    /\ UNCHANGED xml_report

get_dividend(self) ==
    /\ ret' = Called("get_dividend", self, <<>>,
                     dividend(xml_report[self].fin_summary), TRUE)
    /\ UNCHANGED <<xml_report, cache, clock, lastUse>>

get_div_per_share(self, report_type, period) ==
    /\ ret' = Called("get_div_per_share", self, <<report_type, period>>,
                     div_per_share(xml_report[self].fin_summary, report_type, period),
                     TRUE)
    /\ UNCHANGED <<xml_report, cache, clock, lastUse>>

get_revenue(self, report_type, period) ==
    /\ ret' = Called("get_revenue", self, <<report_type, period>>,
                     revenue(xml_report[self].fin_summary, report_type, period), TRUE)
    /\ UNCHANGED <<xml_report, cache, clock, lastUse>>

get_eps(self, report_type, period) ==
    /\ ret' = Called("get_eps", self, <<report_type, period>>,
                     eps(xml_report[self].fin_summary, report_type, period), TRUE)
    /\ UNCHANGED <<xml_report, cache, clock, lastUse>>

get_ratios(self) ==
    /\ ret' = Called("get_ratios", self, <<>>, ratios(xml_report[self].snapshot), TRUE)
    /\ UNCHANGED <<xml_report, cache, clock, lastUse>>

get_fy_estimates(self) ==
    /\ ret' = Called("get_fy_estimates", self, <<>>,
                     fy_estimates(xml_report[self].resc), TRUE)
    /\ UNCHANGED <<xml_report, cache, clock, lastUse>>

get_fy_actuals(self) ==
    /\ ret' = Called("get_fy_actuals", self, <<>>,
                     fy_actuals(xml_report[self].resc), TRUE)
    /\ UNCHANGED <<xml_report, cache, clock, lastUse>>

get_analyst_forecast(self) ==
    /\ ret' = Called("get_analyst_forecast", self, <<>>,
                     analyst_forecast(xml_report[self].snapshot), TRUE)
    /\ UNCHANGED <<xml_report, cache, clock, lastUse>>

(***************************************************************************)
(* FundamentalData: the lazy properties over the instance's own parser.    *)
(***************************************************************************)
\* self.parser of the FundamentalData instance
parser == 1

LazyProperties ==
    {"ownership_report", "dividend", "div_ps_q", "div_ps_ttm", "revenue_ttm",
     "revenue_q", "eps_ttm", "eps_q", "analyst_forecast", "ratios",
     "fy_estimates", "fy_actuals"}

\* No private attribute set yet
NoSlots == [name \in {} |-> None]

\* Outcome of a property access: what it returned or raised, and whether it
\* called the parser
Accessed(name, out, called) == [name |-> name, out |-> out, called |-> called]

\* A store that keeps only a value that is neither None nor an empty list
setattrIfTruthy(obj, name, value) ==
    IF value = None \/ value = PyList(<<>>) THEN obj
    ELSE [k \in DOMAIN obj \cup {name} |-> IF k = name THEN value ELSE obj[k]]

\* self.__name = value
setattr(obj, name, value) ==
    [k \in DOMAIN obj \cup {name} |-> IF k = name THEN value ELSE obj[k]]

\* self.__name
getattr(obj, name) ==
    IF name \in DOMAIN obj THEN Ok(obj[name]) ELSE Raise("AttributeError", name)

\* try: return self.__name
\* except AttributeError: self.__name = <call>; return self.__name
lazy(name, call) ==
    /\ accesses < MaxAccesses
    /\ accesses' = accesses + 1
    /\ IF IsOk(getattr(slots, name))
       THEN /\ accessed' = Accessed(name, getattr(slots, name), FALSE)
            /\ UNCHANGED <<xml_report, cache, clock, lastUse, ret, slots, fetched>>
       ELSE /\ call
            /\ slots' = IF IsOk(ret'.out)
                        THEN setattr(slots, name, ret'.out.value) ELSE slots
            /\ fetched' = IF IsOk(ret'.out)
                          THEN [fetched EXCEPT ![name] = @ + 1] ELSE fetched
            /\ accessed' = IF IsOk(ret'.out)
                           THEN Accessed(name, getattr(slots', name), TRUE)
                           ELSE Accessed(name, ret'.out, TRUE)

data_ownership_report == lazy("ownership_report", get_ownership_report(parser))
data_dividend == lazy("dividend", get_dividend(parser))
data_div_ps_q == lazy("div_ps_q", get_div_per_share(parser, "R", "3M"))
data_div_ps_ttm == lazy("div_ps_ttm", get_div_per_share(parser, "TTM", "None"))
data_revenue_ttm == lazy("revenue_ttm", get_revenue(parser, "TTM", "None"))
data_revenue_q == lazy("revenue_q", get_revenue(parser, "R", "3M"))
data_eps_ttm == lazy("eps_ttm", get_eps(parser, "TTM", "None"))
data_eps_q == lazy("eps_q", get_eps(parser, "R", "3M"))
data_analyst_forecast == lazy("analyst_forecast", get_analyst_forecast(parser))
data_ratios == lazy("ratios", get_ratios(parser))
data_fy_estimates == lazy("fy_estimates", get_fy_estimates(parser))
data_fy_actuals == lazy("fy_actuals", get_fy_actuals(parser))

(***************************************************************************)
(* Documents.                                                              *)
(***************************************************************************)
Leaf(tag, attrib, text) == Elem(tag, attrib, text, <<>>)

\* A child of DividendPerShares / TotalRevenues / EPSs
Metric(asofDate, reportType, period, text) ==
    Leaf("Metric", [asofDate |-> asofDate, reportType |-> reportType,
                    period |-> period], PyStr(text))

MetricNodes ==
    {Metric("2023-03-31", "A", "12M", "12.5"),
     Metric("2023-03-31", "TTM", "12M", "3"),
     Metric("2022-01-01", "R", "3M", "0.5"),
     Metric("2022-01-01", "TTM", "3M", "12.5"),
     Metric("not-a-date", "TTM", "12M", "12.5"),
     Leaf("Metric", [asofDate |-> "2023-03-31", period |-> "3M"], PyStr("0.5"))}

DividendAttrs == {"exDate", "recordDate", "payDate", "declarationDate"}

\* A child of Dividends whose attribute `name` holds `token`
DividendItem(name, token, text) ==
    Leaf("Dividend",
         [a \in DividendAttrs \cup {"type"} |->
            IF a = name THEN token ELSE IF a = "type" THEN "CD" ELSE "2023-03-31"],
         text)

DividendItems ==
    {DividendItem(a, t, PyStr("0.5")) :
        a \in DividendAttrs, t \in {"", "0", "not-a-date"}}
    \cup {DividendItem("type", "CD", x) : x \in {PyStr(""), None, PyStr("abc")}}
    \cup {Leaf("Dividend", [type |-> "CD", exDate |-> "2023-03-31"], PyStr("0.5"))}

Sections == <<"Dividends", "DividendPerShares", "TotalRevenues", "EPSs">>

Section(tag, dividends, metrics) ==
    Elem(tag, [currency |-> "USD"], None,
         IF tag = "Dividends" THEN dividends ELSE metrics)

RECURSIVE SectionsOf(_, _, _, _)
SectionsOf(tags, present, dividends, metrics) ==
    IF tags = <<>> THEN <<>>
    ELSE (IF Head(tags) \in present
          THEN <<Section(Head(tags), dividends, metrics)>> ELSE <<>>)
         \o SectionsOf(Tail(tags), present, dividends, metrics)

FinSummary(present, dividends, metrics) ==
    Elem("FinancialSummary", NoAttrib, None,
         SectionsOf(Sections, present, dividends, metrics))

AllSections == {Sections[k] : k \in 1..Len(Sections)}
DefaultDividends == <<DividendItem("type", "CD", PyStr("0.5"))>>
DefaultMetrics ==
    <<Metric("2023-03-31", "TTM", "12M", "12.5"), Metric("2023-03-31", "R", "3M", "3")>>

MetricDocs ==
    {FinSummary(AllSections, DefaultDividends, m) : m \in BoundedSeq(MetricNodes, MaxKids)}
    \cup {FinSummary(S, DefaultDividends, DefaultMetrics) : S \in SUBSET AllSections}

DividendDocs ==
    {FinSummary(AllSections, d, DefaultMetrics) : d \in BoundedSeq(DividendItems, MaxDividends)}

DefaultFinSummary == FinSummary(AllSections, DefaultDividends, DefaultMetrics)

\* A child of an Owner row
OwnerKids ==
    {Leaf("name", NoAttrib, PyStr("Vanguard")),
     Leaf("quantity", [asofDate |-> "2023-03-31"], PyStr("12.5")),
     Leaf("currency", [asofDate |-> "2022-01-01"], PyStr("USD")),
     Leaf("type", [unit |-> "shares"], PyStr("3")),
     Leaf("quantity", NoAttrib, PyStr("abc"))}

Owner(ownerId, kids) == Elem("Owner", [ownerId |-> ownerId], None, kids)

FloatShares(attrib) == Leaf("floatShares", attrib, PyStr("1000"))

Ownership(isin, floatShares, owners) ==
    Elem("ownership", NoAttrib, None,
         [k \in 1..Len(isin) |-> Leaf("ISIN", NoAttrib, PyStr(isin[k])) ]
         \o floatShares \o owners)

DefaultFloatShares == <<FloatShares([asofDate |-> "2022-01-01"])>>
DefaultOwner ==
    Owner("o0", <<Leaf("name", NoAttrib, PyStr("Vanguard")),
                  Leaf("quantity", [asofDate |-> "2023-03-31"], PyStr("12.5"))>>)

OwnershipDocs ==
    {Ownership(<<"US0001">>, DefaultFloatShares, <<DefaultOwner, Owner("o1", k)>>) :
        k \in BoundedSeq(OwnerKids, MaxOwnerKids)}
    \cup {Ownership(<<"US0001">>, <<FloatShares(a)>>, <<DefaultOwner>>) :
            a \in {[asofDate |-> t] : t \in {"0", "", "2022-01-01", "not-a-date"}}
                  \cup {NoAttrib}}
    \cup {Ownership(i, f, <<Elem("Owner", NoAttrib, None, <<>>)>>) :
            i \in {<<>>, <<"US0001">>, <<"US0001", "US0002">>},
            f \in {<<>>, DefaultFloatShares}}

\* A Ratio node of a Ratios/Group
RatioNodes ==
    {Leaf("Ratio", [FieldName |-> f, Type |-> t], PyStr(x)) :
        f \in {"LATESTADATE", "NPRICE"}, t \in {"D", "N"}, x \in {"2021-12-31", "12.5"}}
    \cup {Leaf("Ratio", [FieldName |-> f], PyStr(x)) :
            f \in {"LATESTADATE", "NPRICE"}, x \in {"2021-12-31", "12.5"}}

Snapshot(groups) ==
    Elem("ReportSnapshot", NoAttrib, None,
         <<Elem("CoIDs", NoAttrib, None, <<>>),
           Elem("Ratios", [PriceCurrency |-> "USD"], None,
                [k \in 1..Len(groups) |->
                    Elem("Group", [ID |-> "Price and Volume"], None, groups[k])])>>)

SnapshotDocs ==
    {Snapshot(<<g>>) : g \in BoundedSeq(RatioNodes, MaxKids)}
    \cup {Snapshot(<<<<n>>, <<Leaf("Ratio", [FieldName |-> "NPRICE", Type |-> "N"],
                                   PyStr("3"))>>>>) : n \in RatioNodes}

DefaultSnapshot == Snapshot(<<>>)

FYPeriod(fYear, kids) ==
    Elem("FYPeriod", [fYear |-> fYear, endMonth |-> "12", endCalYear |-> fYear,
                      periodType |-> "A"], None, kids)

ConsEstimate(type, text) ==
    Elem("ConsEstimate", [type |-> type], None,
         <<Leaf("ConsValue", [dateType |-> "CURR"], PyStr(text))>>)

ActValue(updated, text) == Leaf("ActValue", [updated |-> updated], PyStr(text))

FYItem(tag, type, periods) == Elem(tag, [type |-> type, unit |-> "U"], None, periods)

EstimateItems ==
    {FYItem("FYEstimate", "EPS", <<FYPeriod("2024", <<ConsEstimate("High", "12.5")>>)>>),
     FYItem("FYEstimate", "EPS",
            <<FYPeriod("2024", <<ConsEstimate("High", "12.5"), ConsEstimate("Low", "3")>>),
              FYPeriod("2024", <<ConsEstimate("Mean", "0.5")>>)>>),
     FYItem("FYEstimate", "REVENUE", <<FYPeriod("2025", <<>>)>>),
     FYItem("FYEstimate", "REVENUE", <<>>),
     FYItem("FYEstimate", "EPS",
            <<FYPeriod("2025", <<Elem("ConsEstimate", [type |-> "High"], None, <<>>)>>)>>)}

ActualItems ==
    {FYItem("FYActual", "EPS", <<FYPeriod("2024", <<ActValue("2023-03-31", "12.5")>>)>>),
     FYItem("FYActual", "EPS",
            <<FYPeriod("2024", <<ActValue("2023-03-31", "3"), ActValue("2022-01-01", "0.5")>>),
              FYPeriod("2024", <<ActValue("2022-01-01", "0.5")>>)>>),
     FYItem("FYActual", "REVENUE", <<FYPeriod("2025", <<>>)>>)}

Resc(estimates, actuals) ==
    Elem("REScReport", NoAttrib, None,
         <<Elem("FYEstimates", NoAttrib, None, estimates),
           Elem("FYActuals", NoAttrib, None, actuals)>>)

RescDocs ==
    {Resc(e, a) : e \in BoundedSeq(EstimateItems, MaxItems),
                  a \in BoundedSeq(ActualItems, MaxItems)}

DefaultResc == Resc(<<>>, <<>>)

\* A Ratio node of ForecastData
ForecastRatio(field, values) ==
    Elem("Ratio", [FieldName |-> field, Type |-> "N"], None,
         [k \in 1..Len(values) |-> Leaf("Value", [PeriodType |-> "CURR"], PyStr(values[k]))])

\* A snapshot tree with one Ratios group and a ForecastData node
SnapshotWith(group, forecast) ==
    Elem("ReportSnapshot", NoAttrib, None,
         <<Elem("Ratios", [PriceCurrency |-> "USD"], None,
                <<Elem("Group", [ID |-> "Price and Volume"], None, group)>>),
           Elem("ForecastData", [ConsensusType |-> "Mean"], None, forecast)>>)

\* The ownership tree of parser p in the runs that exercise the cache
Isins == <<"US0001", "US0002", "US0003", "US0004", "US0005">>
OwnershipOf(p) == Ownership(<<Isins[p]>>, DefaultFloatShares, <<DefaultOwner>>)

XMLReport(ownership, fin_summary, snapshot, resc) ==
    [ownership |-> ownership, fin_summary |-> fin_summary,
     snapshot |-> snapshot, resc |-> resc]

\* Every parser over the same trees
Reports(ownership, fin_summary, snapshot, resc) ==
    [p \in Parsers |-> XMLReport(ownership, fin_summary, snapshot, resc)]

NoCall == Called("none", 0, <<>>, Ok(None), FALSE)
NoAccess == Accessed("none", Ok(None), FALSE)

InitState ==
    /\ cache = <<>>
    /\ clock = 0
    /\ lastUse = [p \in Parsers |-> 0]
    /\ ret = NoCall
    /\ slots = NoSlots
    /\ accesses = 0
    /\ fetched = [name \in LazyProperties |-> 0]
    /\ accessed = NoAccess

(***************************************************************************)
(* The dimensioned metrics of one parser, under every filter.              *)
(***************************************************************************)
InitSummary ==
    /\ \E f \in MetricDocs :
          xml_report = Reports(OwnershipOf(1), f, DefaultSnapshot, DefaultResc)
    /\ InitState

NextSummary ==
    \/ get_dividend(1) /\ UNCHANGED facade
    \/ \E rt \in SummaryReportType, per \in SummaryPeriod :
          get_div_per_share(1, rt, per) /\ UNCHANGED facade
    \/ \E rt \in SummaryReportType, per \in SummaryPeriod :
          get_revenue(1, rt, per) /\ UNCHANGED facade
    \/ \E rt \in SummaryReportType, per \in SummaryPeriod :
          get_eps(1, rt, per) /\ UNCHANGED facade

SpecSummary == InitSummary /\ [][NextSummary]_vars

(***************************************************************************)
(* The ownership and financial summary operations of one parser, over      *)
(* every ownership tree and every financial summary tree.                  *)
(***************************************************************************)
Init ==
    /\ \/ \E o \in OwnershipDocs :
             xml_report = Reports(o, DefaultFinSummary, DefaultSnapshot, DefaultResc)
       \/ \E f \in MetricDocs \cup DividendDocs :
             xml_report = Reports(OwnershipOf(1), f, DefaultSnapshot, DefaultResc)
    /\ InitState

Next ==
    \/ get_ownership_report(1) /\ UNCHANGED facade
    \/ get_dividend(1) /\ UNCHANGED facade
    \/ \E rt \in {"None", "TTM"} : get_div_per_share(1, rt, "None") /\ UNCHANGED facade
    \/ \E rt \in {"None", "TTM"} : get_revenue(1, rt, "None") /\ UNCHANGED facade
    \/ \E rt \in {"None", "TTM"} : get_eps(1, rt, "None") /\ UNCHANGED facade

Spec == Init /\ [][Next]_vars

(***************************************************************************)
(* get_ownership_report called on every parser, each with its own tree.    *)
(***************************************************************************)
InitCache ==
    /\ xml_report = [p \in Parsers |->
                       XMLReport(OwnershipOf(p), DefaultFinSummary,
                                 DefaultSnapshot, DefaultResc)]
    /\ InitState

NextCache == \E self \in Parsers : get_ownership_report(self) /\ UNCHANGED facade

SpecCache == InitCache /\ [][NextCache]_vars

(***************************************************************************)
(* get_ratios of one parser over every snapshot tree.                      *)
(***************************************************************************)
InitSnapshot ==
    /\ \E d \in SnapshotDocs :
          xml_report = Reports(OwnershipOf(1), DefaultFinSummary, d, DefaultResc)
    /\ InitState

NextSnapshot == get_ratios(1) /\ UNCHANGED facade

SpecSnapshot == InitSnapshot /\ [][NextSnapshot]_vars

(***************************************************************************)
(* get_fy_estimates and get_fy_actuals of one parser over every            *)
(* forward-estimate tree.                                                  *)
(***************************************************************************)
InitResc ==
    /\ \E d \in RescDocs :
          xml_report = Reports(OwnershipOf(1), DefaultFinSummary, DefaultSnapshot, d)
    /\ InitState

NextResc ==
    \/ get_fy_estimates(1) /\ UNCHANGED facade
    \/ get_fy_actuals(1) /\ UNCHANGED facade

SpecResc == InitResc /\ [][NextResc]_vars

(***************************************************************************)
(* The lazy properties of one FundamentalData instance, over report trees  *)
(* whose every operation returns records, trees with sections absent and   *)
(* faulty nodes, and trees that select nothing.                            *)
(***************************************************************************)
FullReport ==
    XMLReport(OwnershipOf(parser), DefaultFinSummary,
              SnapshotWith(<<Leaf("Ratio", [FieldName |-> "NPRICE", Type |-> "N"],
                                  PyStr("12.5"))>>,
                           <<ForecastRatio("TargetPrice", <<"12.5", "3">>),
                             ForecastRatio("ConsRecom", <<"3">>)>>),
              Resc(<<FYItem("FYEstimate", "EPS",
                            <<FYPeriod("2024", <<ConsEstimate("High", "12.5")>>)>>)>>,
                   <<FYItem("FYActual", "EPS",
                            <<FYPeriod("2024", <<ActValue("2023-03-31", "12.5")>>)>>)>>))

FaultyReport ==
    XMLReport(Ownership(<<>>, DefaultFloatShares, <<DefaultOwner>>),
              FinSummary({}, DefaultDividends, DefaultMetrics),
              SnapshotWith(<<Leaf("Ratio", [FieldName |-> "NPRICE"], PyStr("12.5"))>>,
                           <<ForecastRatio("TargetPrice", <<>>)>>),
              Resc(<<FYItem("FYEstimate", "EPS",
                            <<FYPeriod("2025", <<Elem("ConsEstimate", [type |-> "High"],
                                                      None, <<>>)>>)>>)>>,
                   <<FYItem("FYActual", "EPS",
                            <<FYPeriod("2024", <<ActValue("not-a-date", "12.5")>>)>>)>>))

EmptyReport ==
    XMLReport(OwnershipOf(parser),
              FinSummary(AllSections, <<>>, <<Metric("2023-03-31", "A", "12M", "12.5")>>),
              SnapshotWith(<<>>, <<>>),
              DefaultResc)

\* Dividends and DividendPerShares absent, a faulty Metric under the others
PartialReport ==
    XMLReport(OwnershipOf(parser),
              FinSummary({"TotalRevenues", "EPSs"}, DefaultDividends,
                         <<Metric("not-a-date", "TTM", "12M", "12.5"),
                           Metric("2022-01-01", "R", "3M", "0.5")>>),
              SnapshotWith(<<>>, <<ForecastRatio("ConsRecom", <<"abc">>)>>),
              DefaultResc)

FacadeReports == {FullReport, FaultyReport, EmptyReport, PartialReport}

InitFacade ==
    /\ \E r \in FacadeReports : xml_report = [p \in Parsers |-> r]
    /\ InitState

NextFacade ==
    \/ data_ownership_report
    \/ data_dividend
    \/ data_div_ps_q
    \/ data_div_ps_ttm
    \/ data_revenue_ttm
    \/ data_revenue_q
    \/ data_eps_ttm
    \/ data_eps_q
    \/ data_analyst_forecast
    \/ data_ratios
    \/ data_fy_estimates
    \/ data_fy_actuals

SpecFacade == InitFacade /\ [][NextFacade]_vars

(***************************************************************************)
(* Properties.                                                             *)
(***************************************************************************)
MetricOps == {"get_div_per_share", "get_revenue", "get_eps"}

ContainerOf(op) ==
    CASE op = "get_div_per_share" -> "DividendPerShares"
      [] op = "get_revenue" -> "TotalRevenues"
      [] op = "get_eps" -> "EPSs"
      [] op = "get_dividend" -> "Dividends"

ValueFieldOf(op) ==
    CASE op = "get_div_per_share" -> "value"
      [] op = "get_revenue" -> "revenue"
      [] op = "get_eps" -> "eps"

\* The container the last operation read, or None
RetContainer == find(xml_report[ret.self].fin_summary, ContainerOf(ret.op))

HasAttr(n, name, v) == name \in DOMAIN n.attrib /\ n.attrib[name] = v

\* The filter contract: child n is selected by filters report_type, period
Selected(n, report_type, period) ==
    /\ (report_type = "None" \/ HasAttr(n, "reportType", report_type))
    /\ (period = "None" \/ HasAttr(n, "period", period))

\* Child n carries everything a metric record is built from
WellFormedMetric(n) ==
    /\ {"asofDate", "reportType", "period"} \subseteq DOMAIN n.attrib
    /\ n.attrib["asofDate"] \in DOMAIN IsoDates
    /\ n.text # None /\ n.text.s \in DOMAIN Floats

\* Record r is the one built from child n
RecordOf(r, n, op) ==
    /\ r.as_of_date = IsoDates[n.attrib["asofDate"]]
    /\ r.report_type = PyStr(n.attrib["reportType"])
    /\ r.period = PyStr(n.attrib["period"])
    /\ r.currency = PyStr(RetContainer.attrib["currency"])
    /\ r[ValueFieldOf(op)] = Floats[n.text.s]

\* C1: get_div_per_share, get_revenue and get_eps over a present container
\* return one record for each child selected by the two filters and for no
\* other child, in document order: the k-th record is built from the k-th
\* selected child, so with both filters unset every child yields exactly one
\* record; and they do return whenever every child is well formed.
FilterContract ==
    (ret.op \in MetricOps /\ RetContainer # None) =>
        LET kids == RetContainer.kids
            sel == {i \in 1..Len(kids) : Selected(kids[i], ret.args[1], ret.args[2])}
            rank(i) == Cardinality({j \in sel : j <= i})
        IN  /\ (\A i \in 1..Len(kids) : WellFormedMetric(kids[i])) => IsOk(ret.out)
            /\ IsOk(ret.out) =>
                  /\ ret.out.value.type = "list"
                  /\ Len(ret.out.value.items) = Cardinality(sel)
                  /\ \A i \in sel :
                        RecordOf(ret.out.value.items[rank(i)], kids[i], ret.op)

\* A call with both filters set that keeps the second of two children only
FilterContractWitness ==
    /\ ret.op = "get_revenue" /\ ret.args = <<"TTM", "3M">>
    /\ RetContainer # None /\ Len(RetContainer.kids) = 2
    /\ HasAttr(RetContainer.kids[1], "reportType", "TTM")
    /\ ~Selected(RetContainer.kids[1], "TTM", "3M")
    /\ IsOk(ret.out) /\ Len(ret.out.value.items) = 1

\* The failure of an operation whose required container is absent
MissingSectionError(o) ==
    /\ o.kind = "raise"
    /\ \/ o.exc = "AttributeError" /\ o.at = "NoneType.attrib"
       \/ o.exc = "ValueError" /\ o.at \in {"unpack ISIN", "unpack floatShares"}

\* C2: with its container absent, get_revenue and get_eps fail with the
\* missing-section error and return nothing, while get_dividend and
\* get_div_per_share return None and raise nothing.
AbsentSection ==
    (ret.op \in MetricOps \cup {"get_dividend"} /\ RetContainer = None) =>
        IF ret.op \in {"get_revenue", "get_eps"}
        THEN MissingSectionError(ret.out)
        ELSE ret.out = Ok(None)

\* get_revenue failed and get_dividend's container is absent from the same tree
AbsentSectionWitness ==
    /\ ret.op = "get_revenue" /\ RetContainer = None
    /\ ret.out.kind = "raise"
    /\ find(xml_report[ret.self].fin_summary, "Dividends") = None

\* Parser p has an entry in cache c
Cached(c, p) == \E i \in 1..Len(c) : c[i].key = p

\* The report cache c holds for parser p
EntryOf(c, p) == (CHOOSE e \in {c[i] : i \in 1..Len(c)} : e.key = p).result

\* C3: the cache is not shared across parser instances: a call on another
\* instance never evicts the entry cached for parser p.
CachePerInstance ==
    [][\A p \in Parsers :
          (Cached(cache, p) /\ clock' = clock + 1 /\ ret'.self # p)
              => Cached(cache', p)]_vars

\* The fields of a report, without the identity of the object
Fields(report) ==
    [company |-> report.company, ownership_details |-> report.ownership_details]

\* C4: a call of get_ownership_report on a parser whose entry is in the cache
\* returns the very object stored there, made by an earlier call, without
\* running the extraction, and its fields are those the extraction of the
\* parser's tree constructs; a call on a parser with no entry runs the
\* extraction and, when it returns, stores the new object it returns.
MemoizedCall ==
    [][clock' = clock + 1 =>
          LET p == ret'.self
              fresh == ownership_report(xml_report[p].ownership)
          IN  IF Cached(cache, p)
              THEN /\ ~ret'.ran
                   /\ ret'.out = Ok(EntryOf(cache, p))
                   /\ ret'.out.value.id <= clock
                   /\ IsOk(fresh) /\ Fields(ret'.out.value) = fresh.value
              ELSE /\ ret'.ran
                   /\ IsOk(ret'.out) <=> IsOk(fresh)
                   /\ IsOk(ret'.out) =>
                         /\ ret'.out.value.id = clock'
                         /\ Fields(ret'.out.value) = fresh.value
                         /\ Cached(cache', p)
                         /\ EntryOf(cache', p) = ret'.out.value]_vars

\* A hit that returns an object made at least two calls earlier, while the
\* cache also holds the report of another parser
MemoizedCallWitness ==
    /\ ret.op = "get_ownership_report" /\ ~ret.ran /\ IsOk(ret.out)
    /\ ret.out.value.id + 2 <= clock
    /\ Len(cache) >= 2

\* C5: the cache never holds more than maxsize entries, one for a parser,
\* ordered by their last use (insert or hit), and they are the most recently
\* used ones: a parser that was used and has no entry was evicted from a full
\* cache and every entry kept was used after it.
LeastRecentlyUsed ==
    /\ Len(cache) <= maxsize
    /\ \A i, j \in 1..Len(cache) :
          i < j => /\ cache[i].key # cache[j].key
                   /\ lastUse[cache[i].key] < lastUse[cache[j].key]
    /\ \A p \in Parsers : Cached(cache, p) => lastUse[p] > 0
    /\ \A q \in Parsers :
          (lastUse[q] > 0 /\ ~Cached(cache, q)) =>
              /\ Len(cache) = maxsize
              /\ \A i \in 1..Len(cache) : lastUse[cache[i].key] > lastUse[q]

\* An eviction from a full cache that spared an older object because of a hit:
\* the spared report was made before the evicted parser was last used
LeastRecentlyUsedWitness ==
    /\ Len(cache) = maxsize
    /\ \E q \in Parsers :
          /\ lastUse[q] > 0 /\ ~Cached(cache, q)
          /\ \E i \in 1..Len(cache) : cache[i].result.id < lastUse[q]

\* The ownership tree the last operation read
RetOwnership == xml_report[ret.self].ownership

\* Processing child n of a metric container under the filters raises
MetricFault(op, n, report_type, period) ==
    LET c == FilterCondition(n, report_type, period)
    IN  ~IsOk(c) \/ (c.value /\ ~IsOk(MetricRecord(ValueFieldOf(op), n, "USD")))

\* Some node the operation traverses raises
TraversalFault ==
    CASE ret.op \in MetricOps ->
            \/ RetContainer = None /\ ret.op # "get_div_per_share"
            \/ /\ RetContainer # None
               /\ \E i \in 1..Len(RetContainer.kids) :
                     MetricFault(ret.op, RetContainer.kids[i], ret.args[1], ret.args[2])
      [] ret.op = "get_dividend" ->
            /\ RetContainer # None
            /\ \E i \in 1..Len(RetContainer.kids) :
                  ~IsOk(DividendRecord(RetContainer.kids[i], "USD"))
      [] ret.op = "get_ownership_report" ->
            \/ Len(findall(RetOwnership, "ISIN")) # 1
            \/ Len(findall(RetOwnership, "floatShares")) # 1
            \/ ~IsOk(OwnershipCompany(Head(findall(RetOwnership, "ISIN")),
                                      Head(findall(RetOwnership, "floatShares"))))
            \/ \E i \in 1..Len(findall(RetOwnership, "Owner")) :
                  ~IsOk(OwnershipDetails(findall(RetOwnership, "Owner")[i]))
      [] OTHER -> FALSE

ParseDate(token) == IF token \in {"", "0"} THEN Ok(None) ELSE fromisoformat(token)

DividendDateField(a) ==
    CASE a = "exDate" -> "ex_date"
      [] a = "recordDate" -> "record_date"
      [] a = "payDate" -> "pay_date"
      [] a = "declarationDate" -> "declaration_date"

\* C7: the date rule is applied to the asofDate of floatShares in
\* get_ownership_report and to the four dates of each item in get_dividend:
\* an empty or "0" token gives an absent date and no error, a valid token its
\* date, any other token an error; an item's value is absent exactly when its
\* text is empty.
UniformDateRule ==
    /\ ( /\ ret.op = "get_dividend" /\ RetContainer # None
         /\ \A i \in 1..Len(RetContainer.kids) :
               /\ DividendAttrs \cup {"type"} \subseteq DOMAIN RetContainer.kids[i].attrib
               /\ IsOk(OptionalValue(RetContainer.kids[i])) ) =>
            LET kids == RetContainer.kids
            IN  IF \A i \in 1..Len(kids), a \in DividendAttrs :
                      IsOk(ParseDate(kids[i].attrib[a]))
                THEN /\ IsOk(ret.out)
                     /\ \A i \in 1..Len(kids) :
                           /\ \A a \in DividendAttrs :
                                 ret.out.value.items[i][DividendDateField(a)]
                                     = ParseDate(kids[i].attrib[a]).value
                           /\ ret.out.value.items[i].value = None
                                 <=> ~Truthy(kids[i].text)
                ELSE ret.out.kind = "raise" /\ ret.out.exc = "ValueError"
    /\ ( /\ ret.op = "get_ownership_report"
         /\ Len(findall(RetOwnership, "ISIN")) = 1
         /\ Len(findall(RetOwnership, "floatShares")) = 1
         /\ "asofDate" \in DOMAIN Head(findall(RetOwnership, "floatShares")).attrib
         /\ IsOk(OwnerList(findall(RetOwnership, "Owner"))) ) =>
            LET token == Head(findall(RetOwnership, "floatShares")).attrib["asofDate"]
            IN  IF IsOk(ParseDate(token))
                THEN /\ IsOk(ret.out)
                     /\ ret.out.value.company.as_of_date = ParseDate(token).value
                ELSE ret.out.kind = "raise" /\ ret.out.exc = "ValueError"

\* The first child of Owner row kids that carries an asofDate attribute, 0 if none
FirstDated(kids) ==
    IF \E k \in 1..Len(kids) : "asofDate" \in DOMAIN kids[k].attrib
    THEN CHOOSE k \in 1..Len(kids) :
            /\ "asofDate" \in DOMAIN kids[k].attrib
            /\ \A h \in 1..(k - 1) : "asofDate" \notin DOMAIN kids[h].attrib
    ELSE 0

\* C9: for every Owner row whose ownerId, dates and quantities are well
\* formed, whatever the order of its children, get_ownership_report returns a
\* row with owner_id, with as_of_date the date of the first child that carries
\* an asofDate attribute (children before it that carry none are skipped, later
\* ones do not overwrite it), quantity a number and every other child text.
FirstDatedChild ==
    ( /\ ret.op = "get_ownership_report"
      /\ Len(findall(RetOwnership, "ISIN")) = 1
      /\ Len(findall(RetOwnership, "floatShares")) = 1
      /\ IsOk(OwnershipCompany(Head(findall(RetOwnership, "ISIN")),
                               Head(findall(RetOwnership, "floatShares"))))
      /\ \A i \in 1..Len(findall(RetOwnership, "Owner")) :
            LET row == findall(RetOwnership, "Owner")[i]
            IN  /\ "ownerId" \in DOMAIN row.attrib
                /\ \A k \in 1..Len(row.kids) :
                      /\ "asofDate" \in DOMAIN row.kids[k].attrib
                            => row.kids[k].attrib["asofDate"] \in DOMAIN IsoDates
                      /\ row.kids[k].tag = "quantity" => IsOk(float(row.kids[k].text)) ) =>
        /\ IsOk(ret.out)
        /\ Len(ret.out.value.ownership_details.items)
               = Len(findall(RetOwnership, "Owner"))
        /\ \A i \in 1..Len(findall(RetOwnership, "Owner")) :
              LET row == findall(RetOwnership, "Owner")[i]
                  d == ret.out.value.ownership_details.items[i]
                  first == FirstDated(row.kids)
              IN  /\ d.owner_id = PyStr(row.attrib["ownerId"])
                  /\ IF first = 0 THEN "as_of_date" \notin DOMAIN d
                     ELSE d.as_of_date = IsoDates[row.kids[first].attrib["asofDate"]]
                  /\ \A k \in 1..Len(row.kids) :
                        /\ row.kids[k].tag \in DOMAIN d
                        /\ d[row.kids[k].tag].type = "float" <=> row.kids[k].tag = "quantity"

\* The Ratio nodes of the snapshot tree the last operation read
RetRatios ==
    LET root == xml_report[ret.self].snapshot
        groups == findall(find(root, "Ratios"), "Group")
    IN  ChildrenOf(groups, "Ratio")

\* C8: for every Ratio node under Ratios/Group, get_ratios produces a date
\* field if and only if the node's Type attribute is "D"; with any other Type,
\* and with no Type attribute, it parses the text as a float and does not fail
\* for want of the attribute.
RatioTyping ==
    ( /\ ret.op = "get_ratios"
      /\ find(xml_report[ret.self].snapshot, "Ratios") # None
      /\ \A i \in 1..Len(RetRatios) :
            /\ "FieldName" \in DOMAIN RetRatios[i].attrib
            /\ IF HasAttr(RetRatios[i], "Type", "D")
               THEN IsOk(fromisoformatText(RetRatios[i].text))
               ELSE IsOk(float(RetRatios[i].text)) ) =>
        /\ IsOk(ret.out)
        /\ \A i \in 1..Len(RetRatios) :
              LET name == lower(RetRatios[i].attrib["FieldName"])
                  last == \A j \in (i + 1)..Len(RetRatios) :
                             lower(RetRatios[j].attrib["FieldName"]) # name
              IN  /\ name \in DOMAIN ret.out.value.fields
                  /\ last =>
                        /\ ret.out.value.fields[name].type = "datetime"
                              <=> HasAttr(RetRatios[i], "Type", "D")
                        /\ ~HasAttr(RetRatios[i], "Type", "D")
                              => ret.out.value.fields[name] = float(RetRatios[i].text).value

\* The FYEstimate / FYActual items of the forward-estimate tree the last
\* operation read, their FYPeriod children and the ConsEstimate children of those
RetItems(container, tag) == findall(find(xml_report[ret.self].resc, container), tag)
PeriodsOf(a) == findall(a, "FYPeriod")
ConsEstimatesOf(p) == findall(p, "ConsEstimate")

\* The (item, period, leaf) nestings of the estimates, by position
EstimateNestings ==
    LET as == RetItems("FYEstimates", "FYEstimate")
    IN  UNION {UNION {{<<i, j, k>> : k \in 1..Len(ConsEstimatesOf(PeriodsOf(as[i])[j]))} :
                        j \in 1..Len(PeriodsOf(as[i]))} :
                 i \in 1..Len(as)}

\* The (item, period) nestings of the actuals, by position
ActualNestings ==
    LET as == RetItems("FYActuals", "FYActual")
    IN  UNION {{<<i, j, 1>> : j \in 1..Len(PeriodsOf(as[i]))} : i \in 1..Len(as)}

\* Document order of two nestings
NotAfter(t, u) ==
    \/ t[1] < u[1]
    \/ t[1] = u[1] /\ t[2] < u[2]
    \/ t[1] = u[1] /\ t[2] = u[2] /\ t[3] <= u[3]

\* Record r carries the fields of item a and period p
ForwardYearOf(r, type, a, p) ==
    /\ r.type = PyStr(type)
    /\ r.item = PyStr(a.attrib["type"])
    /\ r.unit = PyStr(a.attrib["unit"])
    /\ r.period_type = PyStr(p.attrib["periodType"])
    /\ r.fyear = Ints[p.attrib["fYear"]]
    /\ r.end_month = Ints[p.attrib["endMonth"]]
    /\ r.end_cal_year = Ints[p.attrib["endCalYear"]]

\* C10: get_fy_estimates returns one Estimate record for each (FYEstimate,
\* FYPeriod, ConsEstimate) nesting and get_fy_actuals one Actual record for
\* each (FYActual, FYPeriod) nesting, in document order, none merged and none
\* moved: the record at the rank of a nesting is built from it; an Estimate
\* carries est_type and no updated, an Actual updated and no est_type.  They
\* return exactly when every leaf has the value node the record reads.
OnePerNesting ==
    /\ ret.op = "get_fy_estimates" =>
          LET as == RetItems("FYEstimates", "FYEstimate")
              leaf(t) == ConsEstimatesOf(PeriodsOf(as[t[1]])[t[2]])[t[3]]
              rank(t) == Cardinality({u \in EstimateNestings : NotAfter(u, t)})
          IN  /\ IsOk(ret.out) <=> \A t \in EstimateNestings : leaf(t).kids # <<>>
              /\ IsOk(ret.out) =>
                    /\ Len(ret.out.value.items) = Cardinality(EstimateNestings)
                    /\ \A t \in EstimateNestings :
                          LET r == ret.out.value.items[rank(t)]
                          IN  /\ ForwardYearOf(r, "Estimate", as[t[1]],
                                               PeriodsOf(as[t[1]])[t[2]])
                              /\ r.est_type = PyStr(leaf(t).attrib["type"])
                              /\ r.value = Floats[leaf(t).kids[1].text.s]
                              /\ "updated" \notin DOMAIN r
    /\ ret.op = "get_fy_actuals" =>
          LET as == RetItems("FYActuals", "FYActual")
              period(t) == PeriodsOf(as[t[1]])[t[2]]
              rank(t) == Cardinality({u \in ActualNestings : NotAfter(u, t)})
          IN  /\ IsOk(ret.out) <=> \A t \in ActualNestings : period(t).kids # <<>>
              /\ IsOk(ret.out) =>
                    /\ Len(ret.out.value.items) = Cardinality(ActualNestings)
                    /\ \A t \in ActualNestings :
                          LET r == ret.out.value.items[rank(t)]
                          IN  /\ ForwardYearOf(r, "Actual", as[t[1]], period(t))
                              /\ r.updated = IsoDates[period(t).kids[1].attrib["updated"]]
                              /\ r.value = Floats[period(t).kids[1].text.s]
                              /\ "est_type" \notin DOMAIN r

\* Estimates returned for an item that repeats a period with distinct leaves:
\* the two leaves of its first period and the leaf of its second one
OnePerNestingWitness ==
    /\ ret.op = "get_fy_estimates" /\ IsOk(ret.out)
    /\ \E t \in EstimateNestings :
          /\ t[2] = 2
          /\ <<t[1], 1, 2>> \in EstimateNestings
          /\ PeriodsOf(RetItems("FYEstimates", "FYEstimate")[t[1]])[1].attrib
                = PeriodsOf(RetItems("FYEstimates", "FYEstimate")[t[1]])[2].attrib
    /\ Len(ret.out.value.items) >= 4

\* The XMLParser operation a property calls, and the arguments it passes
ParserCallOf(name) ==
    CASE name = "ownership_report" -> <<"get_ownership_report", <<>>>>
      [] name = "dividend" -> <<"get_dividend", <<>>>>
      [] name = "div_ps_q" -> <<"get_div_per_share", <<"R", "3M">>>>
      [] name = "div_ps_ttm" -> <<"get_div_per_share", <<"TTM", "None">>>>
      [] name = "revenue_ttm" -> <<"get_revenue", <<"TTM", "None">>>>
      [] name = "revenue_q" -> <<"get_revenue", <<"R", "3M">>>>
      [] name = "eps_ttm" -> <<"get_eps", <<"TTM", "None">>>>
      [] name = "eps_q" -> <<"get_eps", <<"R", "3M">>>>
      [] name = "analyst_forecast" -> <<"get_analyst_forecast", <<>>>>
      [] name = "ratios" -> <<"get_ratios", <<>>>>
      [] name = "fy_estimates" -> <<"get_fy_estimates", <<>>>>
      [] name = "fy_actuals" -> <<"get_fy_actuals", <<>>>>

\* Each property has made at most one parser call that returned, and its
\* slot is filled exactly when it has made one
FetchedOnce ==
    \A name \in LazyProperties :
        /\ fetched[name] <= 1
        /\ fetched[name] = 1 <=> name \in DOMAIN slots

\* One access of a property, from the state before it to the state after it
LazyAccess ==
    LET name == accessed'.name
    IN  /\ name \in LazyProperties
        /\ \A other \in LazyProperties \ {name} :
              getattr(slots', other) = getattr(slots, other)
        /\ IF name \in DOMAIN slots
           THEN /\ accessed'.out = Ok(slots[name])
                /\ ~accessed'.called
                /\ UNCHANGED <<ret, cache, clock, lastUse, slots, fetched>>
           ELSE /\ accessed'.called
                /\ ret'.op = ParserCallOf(name)[1]
                /\ ret'.args = ParserCallOf(name)[2]
                /\ ret'.self = parser
                /\ accessed'.out = ret'.out
                /\ IF IsOk(ret'.out)
                   THEN name \in DOMAIN slots' /\ slots'[name] = ret'.out.value
                   ELSE name \notin DOMAIN slots'

\* C11: each lazy property of FundamentalData calls its parser operation at
\* most once successfully per instance: once an access has returned, every
\* later access returns the stored value without calling the parser, also
\* when that value is None or an empty list; when the parser call raises,
\* nothing is stored, the error propagates and the next access calls the
\* parser again; an access never fills or changes the slot of another
\* property.
LazySlots ==
    /\ []FetchedOnce
    /\ [][accesses' = accesses + 1 => LazyAccess]_vars

\* A later access of dividend returns the None stored by the first one
\* without a parser call, with the list of revenue_q still in its own slot
LazySlotsWitness ==
    /\ accessed = Accessed("dividend", Ok(None), FALSE)
    /\ fetched["dividend"] = 1
    /\ DOMAIN slots = {"dividend", "revenue_q"}
    /\ slots["revenue_q"] # None /\ slots["revenue_q"] # PyList(<<>>)
    /\ ret.op = "get_revenue"

====
